---- MODULE Spec2Model ----
(***************************************************************************)
(* Model of qfm (src/main.rs): a keyboard driven directory browser.        *)
(* One update cycle (MyApp::update) is one action; the fuzzy matcher, the  *)
(* directory lister and the history (push_dir, Alt+Left, Alt+Right) are    *)
(* operators translated from the code.                                     *)
(***************************************************************************)
EXTENDS Integers, Sequences, FiniteSets, TLC

(***************************************************************************)
(* Bounds of the model.                                                    *)
(***************************************************************************)
\* longest history the model lets push_dir build
MaxHist == 2
\* longest filter text the text field accepts in the model
MaxFilter == 1
\* longest filter and name handed to the matcher on its own
MaxLen == 3

\* the longest enumeration handed to the lister on its own
MaxFiles == 3

(***************************************************************************)
(* Characters and strings.  A string is a sequence of characters.          *)
(***************************************************************************)
Chars == {"a", "A", "b", "B"}

\* char::to_uppercase on the alphabet of the model
upper(c) ==
    CASE c = "a" -> "A"
      [] c = "b" -> "B"
      [] OTHER   -> c

\* str::to_uppercase
to_uppercase(str) == [i \in 1..Len(str) |-> upper(str[i])]

\* char::to_string
to_string(c) == <<c>>

\* enum Part { NonMatch(String), Match(String) }
NonMatch(d) == [tag |-> "NonMatch", s |-> d]
Match(d) == [tag |-> "Match", s |-> d]

(***************************************************************************)
(* The matcher: the body of `for entry in entries` up to `if show`.        *)
(***************************************************************************)
\* while_next comparing the characters as they are, without to_uppercase
RECURSIVE while_next_cased(_, _, _, _)
while_next_cased(c, name, pos, hits) ==
    IF pos > Len(name)
    THEN [found |-> FALSE, pos |-> pos, hits |-> hits]
    ELSE LET d_str == to_string(name[pos]) IN
         IF to_string(c) = d_str
         THEN [found |-> TRUE, pos |-> pos + 1, hits |-> Append(hits, Match(d_str))]
         ELSE while_next_cased(c, name, pos + 1, Append(hits, NonMatch(d_str)))

\* while_next pushing Part::NonMatch for the character that matches
RECURSIVE while_next_untagged(_, _, _, _)
while_next_untagged(c, name, pos, hits) ==
    IF pos > Len(name)
    THEN [found |-> FALSE, pos |-> pos, hits |-> hits]
    ELSE LET d_str == to_string(name[pos]) IN
         IF to_uppercase(to_string(c)) = to_uppercase(d_str)
         THEN [found |-> TRUE, pos |-> pos + 1, hits |-> Append(hits, NonMatch(d_str))]
         ELSE while_next_untagged(c, name, pos + 1, Append(hits, NonMatch(d_str)))

\* while_next passing over a matching character when a later one matches too
RECURSIVE while_next_lazy(_, _, _, _)
while_next_lazy(c, name, pos, hits) ==
    IF pos > Len(name)
    THEN [found |-> FALSE, pos |-> pos, hits |-> hits]
    ELSE LET d_str == to_string(name[pos]) IN
         IF /\ to_uppercase(to_string(c)) = to_uppercase(d_str)
            /\ ~\E k \in (pos + 1)..Len(name) :
                   to_uppercase(to_string(c)) = to_uppercase(to_string(name[k]))
         THEN [found |-> TRUE, pos |-> pos + 1, hits |-> Append(hits, Match(d_str))]
         ELSE while_next_lazy(c, name, pos + 1, Append(hits, NonMatch(d_str)))

\* while let Some(d) = entry_iter.next() { ... } for one filter character c;
\* pos is the position of entry_iter (next character to be returned)
RECURSIVE while_next(_, _, _, _)
while_next(c, name, pos, hits) ==
    IF pos > Len(name)
    THEN [found |-> FALSE, pos |-> pos, hits |-> hits]
    ELSE LET d_str == to_string(name[pos]) IN
         IF to_uppercase(to_string(c)) = to_uppercase(d_str)
         THEN [found |-> TRUE, pos |-> pos + 1, hits |-> Append(hits, Match(d_str))]
         ELSE while_next(c, name, pos + 1, Append(hits, NonMatch(d_str)))

\* 'outer: for c in self.filter.chars() { ... show = false; }
RECURSIVE outer(_, _, _, _, _, _)
outer(flt, i, name, pos, hits, show) ==
    IF i > Len(flt)
    THEN [show |-> show, pos |-> pos, hits |-> hits]
    ELSE LET r == while_next(flt[i], name, pos, hits) IN
         outer(flt, i + 1, name, r.pos, r.hits, IF r.found THEN show ELSE FALSE)

\* rest without the loop at lines 177-179
rest_dropped(name, pos, hits) == hits

\* rest pushing Part::Match
RECURSIVE rest_matched(_, _, _)
rest_matched(name, pos, hits) ==
    IF pos > Len(name) THEN hits
    ELSE rest_matched(name, pos + 1, Append(hits, Match(to_string(name[pos]))))

\* the characters entry_iter still holds, pushed as NonMatch when show
RECURSIVE rest(_, _, _)
rest(name, pos, hits) ==
    IF pos > Len(name) THEN hits
    ELSE rest(name, pos + 1, Append(hits, NonMatch(to_string(name[pos]))))

\* the whole matcher: show and the hits that are rendered when show
match_entry(flt, name) ==
    LET r == outer(flt, 1, name, 1, <<>>, TRUE) IN
    IF r.show
    THEN [show |-> TRUE, hits |-> rest(name, r.pos, r.hits)]
    ELSE [show |-> FALSE, hits |-> r.hits]

(***************************************************************************)
(* The filesystem the session runs on.  It does not change during a run.   *)
(* A path is the sequence of the names below the root; the root itself has *)
(* no parent.                                                              *)
(***************************************************************************)
NoTime == -1

nB == <<"B">>
nb == <<"b">>
nA == <<"A">>
nab == <<"a", "b">>
na == <<"a">>

DirRoot == <<>>
DirB == <<nB>>
DirBA == <<nB, nA>>
DirBb == <<nB, nb>>
DirU == <<nB, nA, nb>>

Dirs == {DirRoot, DirB, DirBA, DirBb, DirU}

\* one child as fs::read_dir yields it, with what file.metadata() gives
DirEntry(name, isdir, meta, atime, mtime) ==
    [file_name |-> name, is_dir |-> isdir, meta_ok |-> meta,
     accessed |-> atime, modified |-> mtime]

\* fs::read_dir(&self.dir): Err for a directory that cannot be read,
\* otherwise the children in the order of the enumeration
read_dir(d) ==
    CASE d = DirRoot -> [ok |-> TRUE,
                         files |-> << DirEntry(nB, TRUE, TRUE, 1, 1),
                                      DirEntry(nb, FALSE, TRUE, 2, 2) >>]
      [] d = DirB    -> [ok |-> TRUE,
                         files |-> << DirEntry(nA, TRUE, TRUE, 5, 4),
                                      DirEntry(nb, TRUE, TRUE, 5, 6) >>]
      [] d = DirBA   -> [ok |-> TRUE,
                         files |-> << DirEntry(nb, TRUE, TRUE, 1, 1),
                                      DirEntry(nab, FALSE, TRUE, NoTime, 3) >>]
      [] d = DirBb   -> [ok |-> TRUE,
                         files |-> << DirEntry(na, FALSE, FALSE, NoTime, NoTime) >>]
      [] OTHER       -> [ok |-> FALSE, files |-> <<>>]

\* self.dir.parent().map(|it| it.canonicalize()).transpose().ok().flatten()
parent(d) ==
    IF d = <<>> THEN [some |-> FALSE, path |-> <<>>]
    ELSE LET p == SubSeq(d, 1, Len(d) - 1) IN
         IF p \in Dirs THEN [some |-> TRUE, path |-> p]
         ELSE [some |-> FALSE, path |-> <<>>]

(***************************************************************************)
(* The lister: read_dir, flatten, flat_map over metadata, sort_by_key.     *)
(***************************************************************************)
\* struct Entry { file_name, path, metadata }
Entry(d, f) ==
    [file_name |-> f.file_name, path |-> Append(d, f.file_name),
     is_dir |-> f.is_dir, accessed |-> f.accessed, modified |-> f.modified]

\* .flat_map(|file| file.metadata().ok().map(...)).collect()
RECURSIVE collect(_, _, _)
collect(d, files, k) ==
    IF k > Len(files) THEN <<>>
    ELSE IF files[k].meta_ok
         THEN <<Entry(d, files[k])>> \o collect(d, files, k + 1)
         ELSE collect(d, files, k + 1)

\* e.metadata.accessed().or_else(|_| e.metadata.modified())
recency(e) == IF e.accessed # NoTime THEN e.accessed ELSE e.modified

\* place e before the first entry whose key is not larger
RECURSIVE insert_entry_unstable(_, _, _)
insert_entry_unstable(sorted, e, k) ==
    IF k > Len(sorted) THEN Append(sorted, e)
    ELSE IF recency(sorted[k]) > recency(e)
         THEN insert_entry_unstable(sorted, e, k + 1)
         ELSE SubSeq(sorted, 1, k - 1) \o <<e>> \o SubSeq(sorted, k, Len(sorted))

\* place e behind every entry whose key is not smaller: descending and stable
RECURSIVE insert_entry(_, _, _)
insert_entry(sorted, e, k) ==
    IF k > Len(sorted) THEN Append(sorted, e)
    ELSE IF recency(sorted[k]) >= recency(e)
         THEN insert_entry(sorted, e, k + 1)
         ELSE SubSeq(sorted, 1, k - 1) \o <<e>> \o SubSeq(sorted, k, Len(sorted))

\* entries.sort_by_key(|e| Reverse(recency))
RECURSIVE sort_by_key(_, _, _)
sort_by_key(entries, k, sorted) ==
    IF k > Len(entries) THEN sorted
    ELSE sort_by_key(entries, k + 1, insert_entry(sorted, entries[k], 1))

\* the listing of one cycle from what read_dir gave; err names the unwrap that panics: the one of
\* read_dir(..) or, when keys are compared, the one of an entry without a time
list_files(d, r) ==
    LET entries == collect(d, r.files, 1)
    IN  IF ~r.ok THEN [err |-> "read_dir", entries |-> <<>>]
        ELSE IF Len(entries) >= 2 /\ \E k \in 1..Len(entries) : recency(entries[k]) = NoTime
        THEN [err |-> "time", entries |-> <<>>]
        ELSE [err |-> "no", entries |-> sort_by_key(entries, 1, <<>>)]

\* the listing of a directory of the filesystem
list_dir(d) == list_files(d, read_dir(d))

(***************************************************************************)
(* The state of the session: the fields of MyApp, what the session has     *)
(* done to the outside (status: running, exit, or the unwrap or index that *)
(* panicked; opened: files handed to the OS) and the number of rows the    *)
(* last cycle rendered.                                                    *)
(***************************************************************************)
VARIABLES history, history_pos, filter, selected, dir, status, opened, visible_count

\* the matcher on its own: a filter, a name and the result of matching them
VARIABLES m_filter, m_name, m_result

\* observer of a run of enters followed by Backs: the state before the first
\* enter, the number of enters and the number of Backs since
VARIABLES rt_base, rt_up, rt_down

\* observer of the run enter, enter, Back, enter, Forward from the start
VARIABLES bd_step, bd_seen, bd_B, bd_C

\* the observer of an enter, a Back and a Forward: how far the run has come
\* and the navigation state that was current before the Back
VARIABLES fw_step, fw_before

\* the observer of the history: what the cycle that changed the history last
\* has done to it
VARIABLES ev_change

\* the lister on its own: what read_dir enumerates, the filter and what the
\* cycle made of them
VARIABLES l_files, l_filter, l_out

nav == <<history, history_pos, filter, selected, dir, status, opened, visible_count>>

\* struct HistoryElement { dir, filter, selected }
HistoryElement(d, f, s) == [dir |-> d, filter |-> f, selected |-> s]

Min(a, b) == IF a < b THEN a ELSE b
Max(a, b) == IF a > b THEN a ELSE b

\* Vec::truncate(len)
truncate(v, len) == SubSeq(v, 1, Min(Len(v), len))

\* usize::saturating_sub
saturating_sub(a, b) == IF a > b THEN a - b ELSE 0

\* push_dir cloning the filter instead of replacing it by ""
push_dir_keep_filter(a, path) ==
    LET h == truncate(a.history, a.history_pos + 1) IN
    [a EXCEPT !.history = Append(h, HistoryElement(a.dir, a.filter, a.selected)),
              !.history_pos = Len(h),
              !.dir = path]

\* fn push_dir(&mut self, path: PathBuf); a is the MyApp being updated
push_dir(a, path) ==
    LET h == truncate(a.history, a.history_pos + 1) IN
    [a EXCEPT !.history = Append(h, HistoryElement(a.dir, a.filter, a.selected)),
              !.history_pos = Len(h),
              !.filter = <<>>,
              !.dir = path]

\* HistoryElement { dir: self.dir, filter: self.filter, selected: self.selected }
\*     = self.history[self.history_pos].clone();   (panics out of range)
restore(a) ==
    IF a.history_pos >= Len(a.history)
    THEN [a EXCEPT !.panicked = "index"]
    ELSE LET h == a.history[a.history_pos + 1] IN
         [a EXCEPT !.dir = h.dir, !.filter = h.filter, !.selected = h.selected]

\* the Alt+ArrowLeft branch without line 103
back_keep_pos(a) == restore(a)

\* the Alt+ArrowLeft branch taking the restored snapshot off the history
back_pop(a) ==
    LET r == restore(a) IN
    IF r.panicked # "no" THEN r
    ELSE [r EXCEPT !.history = truncate(r.history, r.history_pos),
                   !.history_pos = saturating_sub(r.history_pos, 1)]

\* the Alt+ArrowLeft branch
back(a) ==
    LET r == restore(a) IN
    IF r.panicked # "no" THEN r
    ELSE [r EXCEPT !.history_pos = saturating_sub(r.history_pos, 1)]

\* the Alt+ArrowRight branch without the .min(..) of line 111
forward_unclamped(a) ==
    LET r == restore(a) IN
    IF r.panicked # "no" THEN r
    ELSE [r EXCEPT !.history_pos = r.history_pos + 1]

\* the Alt+ArrowRight branch
forward(a) ==
    LET r == restore(a) IN
    IF r.panicked # "no" THEN r
    ELSE [r EXCEPT !.history_pos = Min(r.history_pos + 1, Len(r.history) - 1)]

(***************************************************************************)
(* The input snapshot of one cycle.                                        *)
(***************************************************************************)
NoClick == -1
ClickRows == {0, 1, 2}
TypeChars == {"a"}
Edits == {"none", "backspace"} \cup TypeChars

AllInputs ==
    [esc : BOOLEAN, up : BOOLEAN, down : BOOLEAN, home : BOOLEAN,
     alt : BOOLEAN, left : BOOLEAN, right : BOOLEAN, enter : BOOLEAN,
     click : {NoClick} \cup ClickRows, double : BOOLEAN, edit : Edits]

B2N(b) == IF b THEN 1 ELSE 0

\* number of key, mouse and text events in a snapshot (Alt is a modifier)
Events(in) ==
    B2N(in.esc) + B2N(in.up) + B2N(in.down) + B2N(in.home) + B2N(in.left)
    + B2N(in.right) + B2N(in.enter) + B2N(in.click # NoClick) + B2N(in.edit # "none")

\* the snapshots the model feeds: no event, one event, Escape together with
\* one other event, or Enter together with a click
Inputs ==
    {in \in AllInputs : /\ \/ Events(in) <= 1
                           \/ /\ Events(in) = 2
                              /\ in.esc \/ (in.enter /\ in.click # NoClick)
                        /\ (in.double => in.click # NoClick)
                        /\ (in.left \/ in.right => in.alt)
                        /\ (in.alt => in.left \/ in.right \/ in.enter \/ in.click # NoClick)}

(***************************************************************************)
(* MyApp::update, in the order of the code.                                *)
(***************************************************************************)
\* lines 83-113: the keys
keys(a, in) ==
    LET a1 == IF in.esc THEN [a EXCEPT !.quit = TRUE] ELSE a
        a2 == IF in.up THEN [a1 EXCEPT !.selected = @ - 1] ELSE a1
        a3 == IF in.down THEN [a2 EXCEPT !.selected = @ + 1] ELSE a2
        a4 == IF in.home THEN [a3 EXCEPT !.selected = 0] ELSE a3
    IN  IF a4.history = <<>> THEN a4
        ELSE LET a5 == IF in.alt /\ in.left THEN back(a4) ELSE a4 IN
             IF a5.panicked # "no" THEN a5
             ELSE IF in.alt /\ in.right THEN forward(a5) ELSE a5

\* TextEdit::singleline(&mut self.filter): typed text and backspace
text_edit(a, in) ==
    IF in.edit = "none" THEN a
    ELSE IF in.edit = "backspace"
         THEN [a EXCEPT !.filter = SubSeq(@, 1, Len(@) - 1)]
         ELSE [a EXCEPT !.filter = Append(@, in.edit)]

\* response.clicked() of the row laid out with index idx
clicked(in, idx) == in.click = idx

\* response.double_clicked() of that row
double_clicked(in, idx) == in.click = idx /\ in.double

\* a row laid out by ui.selectable_value(&mut self.selected, idx, ..)
Row(idx, path) == [idx |-> idx, path |-> path]

\* lines 142-156: the ".." row
parent_row(a, in) ==
    LET p == parent(a.dir) IN
    IF ~p.some THEN [a |-> a, flag |-> in.enter]
    ELSE LET a1 == IF clicked(in, 0) THEN [a EXCEPT !.selected = 0] ELSE a
             flag == in.enter \/ clicked(in, 0)
             a2 == [a1 EXCEPT !.rows = Append(@, Row(0, p.path))]
         IN  [a |-> IF a2.selected = 0 /\ flag THEN push_dir(a2, p.path) ELSE a2,
              flag |-> flag]

\* entry_row without the test of the Alt modifier at line 216
entry_row_any_modifier(a, e, idx, flag, in) ==
    LET a1 == IF clicked(in, idx) THEN [a EXCEPT !.selected = idx] ELSE a
        a2 == [a1 EXCEPT !.rows = Append(@, Row(idx, e.path))]
    IN  IF idx = a2.selected /\ flag
        THEN IF e.is_dir /\ ~double_clicked(in, idx)
             THEN push_dir(a2, e.path)
             ELSE [a2 EXCEPT !.opened = Append(@, e.path), !.quit = TRUE]
        ELSE a2

\* entry_row without frame.quit() at line 226
entry_row_no_quit(a, e, idx, flag, in) ==
    LET a1 == IF clicked(in, idx) THEN [a EXCEPT !.selected = idx] ELSE a
        a2 == [a1 EXCEPT !.rows = Append(@, Row(idx, e.path))]
    IN  IF idx = a2.selected /\ flag
        THEN IF ~in.alt /\ e.is_dir /\ ~double_clicked(in, idx)
             THEN push_dir(a2, e.path)
             ELSE [a2 EXCEPT !.opened = Append(@, e.path)]
        ELSE a2

\* lines 213-229: the row of a shown entry
entry_row(a, e, idx, flag, in) ==
    LET a1 == IF clicked(in, idx) THEN [a EXCEPT !.selected = idx] ELSE a
        a2 == [a1 EXCEPT !.rows = Append(@, Row(idx, e.path))]
    IN  IF idx = a2.selected /\ flag
        THEN IF ~in.alt /\ e.is_dir /\ ~double_clicked(in, idx)
             THEN push_dir(a2, e.path)
             ELSE [a2 EXCEPT !.opened = Append(@, e.path), !.quit = TRUE]
        ELSE a2

\* lines 158-232: for entry in entries
RECURSIVE for_entries(_, _, _, _, _, _)
for_entries(a, entries, k, idx, flag, in) ==
    IF k > Len(entries) THEN [a |-> a, idx |-> idx]
    ELSE IF ~match_entry(a.filter, entries[k].file_name).show
         THEN for_entries(a, entries, k + 1, idx, flag, in)
         ELSE LET flag1 == flag \/ clicked(in, idx) IN
              for_entries(entry_row(a, entries[k], idx, flag1, in),
                          entries, k + 1, idx + 1, flag1, in)

\* self.selected = self.selected.max(0).min(idx - 1)
clamp(sel, idx) == Min(Max(sel, 0), idx - 1)

\* the listing of every directory of the unchanged filesystem
listing == [d \in Dirs |-> list_dir(d)]

\* lines 120-234: the scroll area
scroll_area(a, in) ==
    LET l == listing[a.dir] IN
    IF l.err # "no" THEN [a EXCEPT !.panicked = l.err]
    ELSE LET p == parent_row(a, in)
             r == for_entries(p.a, l.entries, 1, 1, p.flag, in)
         IN  [r.a EXCEPT !.selected = clamp(@, r.idx)]

\* the MyApp the cycle works on
this ==
    [history |-> history, history_pos |-> history_pos, filter |-> filter,
     selected |-> selected, dir |-> dir, opened |-> opened,
     quit |-> FALSE, panicked |-> "no", rows |-> <<>>]

\* the whole cycle as a function of the input snapshot
cycle(a, in) ==
    LET a1 == keys(a, in) IN
    IF a1.panicked # "no" THEN a1
    ELSE scroll_area(text_edit(a1, in), in)

\* the text field and the history stay within the bounds of the model
within_bounds(a, in, b) ==
    /\ in.edit \in TypeChars => Len(keys(a, in).filter) < MaxFilter
    /\ Len(b.history) <= MaxHist

\* fn update(&mut self, ctx, frame)
update(in) ==
    /\ status = "running"
    /\ \E a \in {cycle(this, in)} :
       /\ within_bounds(this, in, a)
       /\ history' = a.history
       /\ history_pos' = a.history_pos
       /\ filter' = a.filter
       /\ selected' = a.selected
       /\ dir' = a.dir
       /\ opened' = a.opened
       /\ visible_count' = Len(a.rows)
       /\ status' = IF a.panicked # "no" THEN a.panicked
                    ELSE IF a.quit THEN "exit" ELSE "running"

\* impl Default for MyApp; the starting directory is any directory
new ==
    /\ history = <<>>
    /\ history_pos = 0
    /\ filter = <<>>
    /\ selected = 0
    /\ dir \in Dirs
    /\ status = "running"
    /\ opened = <<>>
    /\ visible_count = 0

(***************************************************************************)
(* The commands of the interface as input snapshots.                       *)
(***************************************************************************)
NoInput ==
    [esc |-> FALSE, up |-> FALSE, down |-> FALSE, home |-> FALSE,
     alt |-> FALSE, left |-> FALSE, right |-> FALSE, enter |-> FALSE,
     click |-> NoClick, double |-> FALSE, edit |-> "none"]

EnterKey == [NoInput EXCEPT !.enter = TRUE]
AltLeft == [NoInput EXCEPT !.alt = TRUE, !.left = TRUE]
AltRight == [NoInput EXCEPT !.alt = TRUE, !.right = TRUE]

\* Enter, or a click on the row that is selected already
EnterOps(sel) == {EnterKey} \cup {[NoInput EXCEPT !.click = r] : r \in ClickRows \cap {sel}}

\* the triple a snapshot is taken of
current == HistoryElement(dir, filter, selected)

(***************************************************************************)
(* The matcher on its own.                                                 *)
(***************************************************************************)
Strings(n) == UNION {[1..k -> Chars] : k \in 0..n}
Names(n) == Strings(n) \ {<<>>}

NoResult == [done |-> FALSE, show |-> FALSE, hits |-> <<>>]

matcher_idle ==
    /\ m_filter = <<>>
    /\ m_name = na
    /\ m_result = NoResult

matcher == <<m_filter, m_name, m_result>>

\* one entry of the loop at lines 158-179 with self.filter = m_filter
DoMatch ==
    /\ ~m_result.done
    /\ LET r == match_entry(m_filter, m_name) IN
       m_result' = [done |-> TRUE, show |-> r.show, hits |-> r.hits]
    /\ UNCHANGED <<m_filter, m_name>>

\* the name of the k-th child of an enumeration: a, aa, aaa, ..
child_name(k) == [i \in 1..k |-> "a"]

\* whether metadata() answers, and the two times of it
Metas == BOOLEAN \X {NoTime, 1, 2} \X {NoTime, 1, 2}

\* the enumeration of k children with the metadata c
enumeration(k, c) ==
    [i \in 1..k |-> DirEntry(child_name(i), FALSE, c[i][1], c[i][2], c[i][3])]

ListFilters == {<<>>, <<"a", "a">>}

NoListing == [done |-> FALSE, err |-> "no", entries |-> <<>>, rows |-> <<>>]

lister == <<l_files, l_filter, l_out>>

lister_idle ==
    /\ l_files = <<>>
    /\ l_filter = <<>>
    /\ l_out = NoListing

\* lines 119-139 and the loop at 158-232 on the enumeration l_files with
\* self.filter = l_filter and no event
DoList ==
    /\ ~l_out.done
    /\ LET l == list_files(DirB, [ok |-> TRUE, files |-> l_files])
           app == [this EXCEPT !.dir = DirB, !.filter = l_filter]
           r == IF l.err = "no"
                THEN for_entries(app, l.entries, 1, 1, FALSE, NoInput).a.rows
                ELSE <<>>
       IN  l_out' = [done |-> TRUE, err |-> l.err, entries |-> l.entries, rows |-> r]
    /\ UNCHANGED <<l_files, l_filter>>

(***************************************************************************)
(* The observers.                                                          *)
(***************************************************************************)
rt == <<rt_base, rt_up, rt_down>>

rt_idle ==
    /\ rt_base = HistoryElement(<<>>, <<>>, 0)
    /\ rt_up = 0
    /\ rt_down = 0

\* follows the cycle that update(in) has just taken
rt_observe(in) ==
    IF in \in EnterOps(selected) /\ dir' # dir
    THEN IF rt_up > 0 /\ rt_down = 0
         THEN rt_up' = rt_up + 1 /\ UNCHANGED <<rt_base, rt_down>>
         ELSE rt_base' = current /\ rt_up' = 1 /\ rt_down' = 0
    ELSE IF in = AltLeft /\ history # <<>> /\ rt_down < rt_up
    THEN rt_down' = rt_down + 1 /\ UNCHANGED <<rt_base, rt_up>>
    ELSE IF in = NoInput
    THEN UNCHANGED rt
    ELSE rt_base' = HistoryElement(<<>>, <<>>, 0) /\ rt_up' = 0 /\ rt_down' = 0

bd == <<bd_step, bd_seen, bd_B, bd_C>>

bd_idle ==
    /\ bd_step = 0
    /\ bd_seen = {}
    /\ bd_B = <<>>
    /\ bd_C = HistoryElement(<<>>, <<>>, 0)

\* Enter, or a click on any row
EnterAny == {EnterKey} \cup {[NoInput EXCEPT !.click = r] : r \in ClickRows}

\* no event, or a move of the selection
Moves ==
    {NoInput, [NoInput EXCEPT !.up = TRUE], [NoInput EXCEPT !.down = TRUE],
     [NoInput EXCEPT !.home = TRUE]}

\* follows the cycle that update(in) has just taken; step -1: off the run.
\* Moves of the selection do not count; bd_C is the state Forward starts from.
bd_observe(in) ==
    LET entered == in \in EnterAny /\ dir' # dir IN
    CASE bd_step \in 0..6 /\ in \in Moves ->
            /\ bd_C' = IF bd_step = 4 THEN HistoryElement(dir', filter', selected') ELSE bd_C
            /\ bd_step' = IF bd_step = 5 THEN 6 ELSE bd_step
            /\ UNCHANGED <<bd_seen, bd_B>>
      [] bd_step = 0 /\ entered ->
            bd_step' = 1 /\ bd_seen' = {dir, dir'} /\ UNCHANGED <<bd_B, bd_C>>
      [] bd_step = 1 /\ entered /\ dir' \notin bd_seen ->
            bd_step' = 2 /\ bd_seen' = bd_seen \cup {dir'} /\ bd_B' = dir'
            /\ UNCHANGED bd_C
      [] bd_step = 2 /\ in = AltLeft ->
            bd_step' = 3 /\ UNCHANGED <<bd_seen, bd_B, bd_C>>
      [] bd_step = 3 /\ entered /\ dir' \notin bd_seen ->
            bd_step' = 4 /\ bd_C' = HistoryElement(dir', filter', selected')
            /\ UNCHANGED <<bd_seen, bd_B>>
      [] bd_step = 4 /\ in = AltRight ->
            bd_step' = 5 /\ UNCHANGED <<bd_seen, bd_B, bd_C>>
      [] bd_step \in {5, 6} /\ in \in {AltLeft, AltRight} ->
            bd_step' = 6 /\ UNCHANGED <<bd_seen, bd_B, bd_C>>
      [] OTHER ->
            bd_step' = -1 /\ UNCHANGED <<bd_seen, bd_B, bd_C>>

\* the kind of a snapshot: "two" with Enter and a click, "one" with one of
\* them, "quiet" with neither
kind(in) ==
    IF in.enter /\ in.click # NoClick THEN "two"
    ELSE IF in.enter \/ in.click # NoClick THEN "one"
    ELSE "quiet"

\* the length of the longest common prefix of s and t
common_prefix(s, t) ==
    LET m == Min(Len(s), Len(t)) IN
    CHOOSE k \in 0..m : /\ \A i \in 1..k : s[i] = t[i]
                        /\ k = m \/ s[k + 1] # t[k + 1]

\* the pushes a cycle can make on a snapshot of this kind
pushes(k) == CASE k = "two" -> 2 [] k = "one" -> 1 [] OTHER -> 0

ev == <<ev_change>>

ev_idle == ev_change = "none"

\* follows the cycle that update(in) has just taken: "pushed" when all but the
\* last elements of the new history, one for each push the snapshot allows,
\* are leading elements the cycle left as they were; "other" for any other
\* change
ev_observe(in) ==
    IF history' = history THEN UNCHANGED ev
    ELSE ev_change' =
            IF /\ kind(in) # "quiet"
               /\ Len(history') - common_prefix(history, history') <= pushes(kind(in))
            THEN "pushed" ELSE "other"

fw == <<fw_step, fw_before>>

fw_idle ==
    /\ fw_step = 0
    /\ fw_before = HistoryElement(<<>>, <<>>, 0)

\* follows the cycle that update(in) has just taken: step 1 after an enter,
\* 2 after the Back that follows it, 3 after the Forward that follows that;
\* moves of the selection before the Back belong to the state it leaves
fw_observe(in) ==
    LET now == HistoryElement(dir', filter', selected') IN
    CASE in \in EnterAny /\ dir' # dir ->
            fw_step' = 1 /\ fw_before' = now
      [] fw_step = 1 /\ in \in Moves ->
            fw_step' = 1 /\ fw_before' = now
      [] fw_step = 1 /\ in = AltLeft ->
            fw_step' = 2 /\ UNCHANGED fw_before
      [] fw_step = 2 /\ in = NoInput ->
            UNCHANGED fw
      [] fw_step = 2 /\ in = AltRight ->
            fw_step' = 3 /\ UNCHANGED fw_before
      [] OTHER ->
            fw_step' = 0 /\ fw_before' = HistoryElement(<<>>, <<>>, 0)

(***************************************************************************)
(* The specifications.                                                     *)
(***************************************************************************)
vars == <<nav, matcher, rt, bd, lister, fw, ev>>

\* the session
Init == new /\ matcher_idle /\ rt_idle /\ bd_idle /\ lister_idle /\ fw_idle /\ ev_idle

Update == \E in \in Inputs : update(in) /\ UNCHANGED <<matcher, rt, bd, lister, fw, ev>>

Next == Update

Spec == Init /\ [][Next]_vars

\* the session with the observer of enters and Backs
UpdateRT == \E in \in Inputs : update(in) /\ rt_observe(in) /\ UNCHANGED <<matcher, bd, lister, fw, ev>>

NextRT == UpdateRT

SpecRT == Init /\ [][NextRT]_vars

\* the session with the observer of the branch
UpdateBD == \E in \in Inputs : update(in) /\ bd_observe(in) /\ UNCHANGED <<matcher, rt, lister, fw, ev>>

NextBD == UpdateBD

SpecBD == Init /\ [][NextBD]_vars

\* the session with the observer of an enter, a Back and a Forward
UpdateFW ==
    \E in \in Inputs : update(in) /\ fw_observe(in) /\ UNCHANGED <<matcher, rt, bd, lister, ev>>

NextFW == UpdateFW

SpecFW == Init /\ [][NextFW]_vars

\* the session with the observer of the snapshots
UpdateEV ==
    \E in \in Inputs : update(in) /\ ev_observe(in) /\ UNCHANGED <<matcher, rt, bd, lister, fw>>

NextEV == UpdateEV

SpecEV == Init /\ [][NextEV]_vars

\* the matcher on every filter and name within the bound
InitMatch ==
    /\ new /\ dir = DirRoot
    /\ rt_idle /\ bd_idle /\ lister_idle /\ fw_idle /\ ev_idle
    /\ m_filter \in Strings(MaxLen)
    /\ m_name \in Names(MaxLen)
    /\ m_result = NoResult

Matching == DoMatch /\ UNCHANGED <<nav, rt, bd, lister, fw, ev>>

NextMatch == Matching

SpecMatch == InitMatch /\ [][NextMatch]_vars

\* the lister on every enumeration within the bound
InitList ==
    /\ new /\ dir = DirRoot
    /\ matcher_idle /\ rt_idle /\ bd_idle /\ fw_idle /\ ev_idle
    /\ \E k \in 0..MaxFiles : \E c \in [1..k -> Metas] : l_files = enumeration(k, c)
    /\ l_filter \in ListFilters
    /\ l_out = NoListing

Listing == DoList /\ UNCHANGED <<nav, matcher, rt, bd, fw, ev>>

NextList == Listing

SpecList == InitList /\ [][NextList]_vars

(***************************************************************************)
(* Properties.                                                             *)
(***************************************************************************)
\* the entries of d that pass the filter f, in the order of the listing
visible(d, f) ==
    SelectSeq(listing[d].entries, LAMBDA e : match_entry(f, e.file_name).show)

\* the row with index s is the row of a file
row_is_file(d, f, s) ==
    /\ s >= 1
    /\ listing[d].err = "no"
    /\ LET v == visible(d, f) IN s <= Len(v) /\ ~v[s].is_dir

\* the path behind the row with index s: the parent for 0, an entry otherwise
row_path(d, f, s) == IF s = 0 THEN parent(d).path ELSE visible(d, f)[s].path

\* Enter, a click or a double click on the selected row, with or without Alt
Activations(sel) ==
    {[NoInput EXCEPT !.enter = TRUE, !.alt = al] : al \in BOOLEAN}
    \cup {[NoInput EXCEPT !.click = r, !.double = d, !.alt = al] :
             r \in ClickRows \cap {sel}, d \in BOOLEAN, al \in BOOLEAN}

\* C1: a run of k enters followed by k Backs, with nothing but idle cycles in
\* between, ends in the directory, filter and selection from before the
\* first enter.
C1_RoundTrip == (rt_up > 0 /\ rt_down = rt_up) => current = rt_base

C1_Witness == rt_up >= 2 /\ rt_down = rt_up /\ rt_base.filter # <<>>

\* C2: after enter(A), enter(B), Back, enter(C) from the start, Forward
\* leaves directory, filter and selection as they are, and no Back or
\* Forward after it makes B the current directory.
C2_BranchDiscard ==
    /\ bd_step = 5 => current = bd_C
    /\ bd_step \in {5, 6} => dir # bd_B

\* C3: Back when the session is on the first snapshot already (cursor 0 and
\* the directory of that snapshot) or the history is empty, and Forward with
\* the cursor on the last snapshot or an empty history, change neither
\* directory, filter, selection nor cursor.
C3_BoundaryNoOp ==
    [][ /\ ((history = <<>> \/ (history_pos = 0 /\ dir = history[1].dir))
            /\ update(AltLeft))
           => UNCHANGED <<dir, filter, selected, history_pos>>
        /\ ((history = <<>> \/ history_pos = Len(history) - 1) /\ update(AltRight))
           => UNCHANGED <<dir, filter, selected, history_pos>> ]_vars

\* C4: at the end of every cycle the selection is a row of the visible list
\* of that cycle, and 0 when that list is empty.
C4_SelectionBounds ==
    status \in {"running", "exit"} =>
        IF visible_count > 0
        THEN 0 <= selected /\ selected < visible_count
        ELSE selected = 0

\* C5: the history is empty or the cursor is an index into it, no cycle reads
\* the history out of range, and with an empty history Back and Forward
\* change nothing.
C5_CursorValid ==
    /\ [](/\ status # "index"
          /\ history_pos >= 0
          /\ history = <<>> \/ history_pos < Len(history))
    /\ [][ (history = <<>> /\ (update(AltLeft) \/ update(AltRight)))
           => UNCHANGED <<dir, filter, selected, history, history_pos>> ]_vars

C5_Witness == Len(history) >= 2 /\ history_pos = 0

\* C6: entering the directory of the selected row appends the snapshot of
\* the state before to the history cut behind the cursor, puts the cursor on
\* it, makes the target the current directory, empties the filter and keeps
\* the selection.
C6_EnterDirectory ==
    [][ \A in \in EnterOps(selected) :
          (dir' # dir /\ update(in)) =>
             /\ history' = Append(SubSeq(history, 1, Min(Len(history), history_pos + 1)),
                                  current)
             /\ history_pos' = Len(history') - 1
             /\ dir' = row_path(dir, filter, selected)
             /\ filter' = <<>>
             /\ selected' = selected ]_vars

C6_Witness ==
    /\ history # <<>>
    /\ history_pos = Len(history) - 1
    /\ history[Len(history)].filter # <<>>
    /\ history[Len(history)].dir # dir
    /\ filter = <<>>
    /\ status = "running"

\* C7: activating the selected row when it is the row of a file leaves
\* directory, filter, selection, history and cursor as they are, hands
\* exactly that file to the OS once and ends the session.
C7_EnterFile ==
    (status = "running" /\ row_is_file(dir, filter, selected)) =>
        \A in \in Activations(selected) :
           LET a == cycle(this, in) IN
           /\ <<a.dir, a.filter, a.selected, a.history, a.history_pos>> =
                 <<dir, filter, selected, history, history_pos>>
           /\ a.opened = Append(opened, row_path(dir, filter, selected))
           /\ Len(a.opened) = 1
           /\ a.quit /\ a.panicked = "no"

C7_Witness ==
    /\ status = "exit"
    /\ opened = <<Append(DirBA, nab)>>
    /\ history # <<>>

\* the same letter in either case
same_letter(c, d) == c = d \/ {c, d} = {"a", "A"} \/ {c, d} = {"b", "B"}

\* f from its i-th character on is a subsequence of n from its j-th on
RECURSIVE is_subsequence(_, _, _, _)
is_subsequence(f, i, n, j) ==
    \/ i > Len(f)
    \/ \E k \in j..Len(n) : same_letter(f[i], n[k]) /\ is_subsequence(f, i + 1, n, k + 1)

\* the other case of a letter
flip(c) ==
    CASE c = "a" -> "A"
      [] c = "A" -> "a"
      [] c = "b" -> "B"
      [] OTHER   -> "b"

flip_at(str, i) == [str EXCEPT ![i] = flip(@)]

\* C8: the matcher shows a name exactly when the filter is a subsequence of
\* it up to case, and changing the case of a character of the filter or of
\* the name does not change that.
C8_MatchIffSubsequence ==
    m_result.done =>
        /\ m_result.show <=> is_subsequence(m_filter, 1, m_name, 1)
        /\ \A i \in 1..Len(m_filter) :
              match_entry(flip_at(m_filter, i), m_name).show <=> m_result.show
        /\ \A i \in 1..Len(m_name) :
              match_entry(m_filter, flip_at(m_name, i)).show <=> m_result.show

C8_Witness ==
    /\ m_result.done /\ m_result.show
    /\ m_filter = <<"A", "B">>
    /\ m_name = <<"a", "b">>

\* the characters of the parts in order
RECURSIVE concat(_)
concat(hits) == IF hits = <<>> THEN <<>> ELSE Head(hits).s \o concat(Tail(hits))

\* C9: when the matcher shows a name, the parts in order spell the name,
\* every character once and in its own case.
C9_RunsCoverName == (m_result.done /\ m_result.show) => concat(m_result.hits) = m_name

C9_Witness ==
    /\ m_result.done /\ m_result.show
    /\ m_filter = <<"A">>
    /\ m_name = <<"b", "a", "B">>

\* C10 as stated: the empty filter gives exactly one part, NonMatch, holding
\* the whole name.
C10_OneRun ==
    (m_result.done /\ m_filter = <<>>) =>
        m_result.show /\ m_result.hits = <<NonMatch(m_name)>>

\* C10 as the code has it: the empty filter gives one NonMatch part for every
\* character of the name, in order, and no Match part.
C10_OneRunPerChar ==
    (m_result.done /\ m_filter = <<>>) =>
        /\ m_result.show
        /\ Len(m_result.hits) = Len(m_name)
        /\ \A i \in 1..Len(m_name) : m_result.hits[i] = NonMatch(to_string(m_name[i]))

C10_Witness == m_result.done /\ m_filter = <<>> /\ Len(m_name) >= 2

\* the indices of the parts tagged Match, in order
RECURSIVE match_positions(_, _)
match_positions(hits, k) ==
    IF k > Len(hits) THEN <<>>
    ELSE (IF hits[k].tag = "Match" THEN <<k>> ELSE <<>>) \o match_positions(hits, k + 1)

\* C16: when the matcher shows a name, part k holds character k of the name,
\* and the i-th part tagged Match is the first character equal up to case to
\* the i-th filter character behind the part matched before it; all other
\* parts are tagged NonMatch.
C16_GreedyLeftmost ==
    (m_result.done /\ m_result.show) =>
        LET hits == m_result.hits
            p == match_positions(hits, 1)
        IN  /\ Len(hits) = Len(m_name)
            /\ \A k \in 1..Len(hits) : hits[k].s = to_string(m_name[k])
            /\ Len(p) = Len(m_filter)
            /\ \A i \in 1..Len(p) :
                  /\ same_letter(m_filter[i], m_name[p[i]])
                  /\ \A k \in ((IF i = 1 THEN 0 ELSE p[i - 1]) + 1)..(p[i] - 1) :
                        ~same_letter(m_filter[i], m_name[k])

C16_Witness ==
    /\ m_result.done /\ m_result.show
    /\ m_filter = <<"a", "A">>
    /\ m_name = <<"b", "A", "a">>

\* C19: when the matcher shows a name, there are as many parts tagged Match
\* as filter characters, and the i-th of them holds the i-th filter character
\* up to case.
C19_MatchedSpellFilter ==
    (m_result.done /\ m_result.show) =>
        LET hits == m_result.hits
            p == match_positions(hits, 1)
        IN  /\ Len(p) = Len(m_filter)
            /\ \A i \in 1..Len(p) :
                  /\ Len(hits[p[i]].s) = 1
                  /\ same_letter(hits[p[i]].s[1], m_filter[i])

C19_Witness ==
    /\ m_result.done /\ m_result.show
    /\ m_filter = <<"a", "B">>
    /\ m_name = <<"A", "a", "b">>

\* the recency key of a listed entry: the access time, else the modification time
recency_key(e) == IF e.accessed = NoTime THEN e.modified ELSE e.accessed

\* where the enumeration gave the child with this name
enum_pos(files, name) == CHOOSE k \in 1..Len(files) : files[k].file_name = name

\* C11: the listing is in descending order of the recency key, entries with
\* equal keys stand in the order of the enumeration, and the rows shown are
\* the entries that pass the filter, in the order of the listing
C11_ListerOrder ==
    (l_out.done /\ l_out.err = "no") =>
        LET es == l_out.entries
            passing == SelectSeq(es, LAMBDA e : is_subsequence(l_filter, 1, e.file_name, 1))
        IN  /\ \A i, j \in 1..Len(es) : i < j =>
                  /\ recency_key(es[i]) >= recency_key(es[j])
                  /\ recency_key(es[i]) = recency_key(es[j]) =>
                        enum_pos(l_files, es[i].file_name) < enum_pos(l_files, es[j].file_name)
            /\ {es[i].file_name : i \in 1..Len(es)} =
                  {l_files[k].file_name : k \in {n \in 1..Len(l_files) : l_files[n].meta_ok}}
            /\ Len(l_out.rows) = Len(passing)
            /\ \A i \in 1..Len(passing) :
                  l_out.rows[i].path = passing[i].path /\ l_out.rows[i].idx = i

\* three entries listed, the first and the last of the enumeration with equal
\* keys, and the filter hides the child in between them
C11_Witness ==
    /\ l_out.done /\ l_out.err = "no" /\ Len(l_out.entries) = 3
    /\ l_filter = <<"a", "a">>
    /\ recency_key(l_out.entries[1]) = recency_key(l_out.entries[2])
    /\ recency_key(l_out.entries[2]) > recency_key(l_out.entries[3])
    /\ Len(l_out.rows) = 2

\* C12: a cycle whose current directory cannot be read displays no row, leaves
\* the navigation state and the history as they were and leaves the session
\* running
C12_UnreadableDirectory ==
    [][(status = "running" /\ ~read_dir(dir).ok /\ update(NoInput)) =>
          /\ status' = "running"
          /\ visible_count' = 0
          /\ <<history', history_pos', filter', selected', dir'>> =
                <<history, history_pos, filter, selected, dir>>]_vars

\* C13: after an enter, a Back and then a Forward, the directory, the filter
\* and the selection are the ones that were current just before the Back
C13_ForwardUndoesBack ==
    (fw_step = 3 /\ status = "running") => current = fw_before

\* C14: a cycle changes the snapshot sequence only when its snapshot has
\* Enter or a click (not on a filter edit, a move of the selection, Back or
\* Forward), and then only by dropping a suffix and appending one snapshot
\* for each push of the cycle (two at most, when Enter and a click come
\* together): the snapshots that stay keep their index and their value, so
\* all but the last one (or two) of the new sequence are leading elements
\* the cycle left as they were
C14_HistoryOnlyPushed ==
    IF ev_change = "none" THEN history = <<>>
    ELSE ev_change = "pushed" /\ history # <<>>

\* two pushes and a Back behind them: the cursor has moved, both snapshots
\* are still there, the second push has kept the first
C14_Witness ==
    /\ status = "running" /\ ev_change = "pushed"
    /\ Len(history) = 2 /\ history_pos = 0
    /\ history[1].dir # history[2].dir /\ dir = history[2].dir

\* C15: the ".." row is laid out exactly when the parent resolves and is then
\* row 0; without it the first entry that passes the filter is row 0; and
\* whenever rows are laid out, Enter with selected = 0 activates row 0 (the
\* cycle enters a directory or opens a file and quits)
C15_RowZero ==
    (status = "running" /\ listing[dir].err = "no") =>
        LET rows == cycle(this, NoInput).rows
            p == parent(dir)
        IN  /\ p.some => rows # <<>> /\ rows[1] = Row(0, p.path)
            /\ (~p.some /\ rows # <<>>) => rows[1] = Row(0, visible(dir, filter)[1].path)
            /\ (rows # <<>> /\ selected = 0) =>
                  LET a == cycle(this, EnterKey) IN a.dir # dir \/ a.quit

\* the row with index s is the ".." row
row_is_parent(d, s) == s = 0 /\ listing[d].err = "no" /\ parent(d).some

\* the row with index s is the row of a directory: ".." or one of the listing
row_is_dir(d, f, s) ==
    \/ row_is_parent(d, s)
    \/ /\ s >= 1
       /\ listing[d].err = "no"
       /\ LET v == visible(d, f) IN s <= Len(v) /\ v[s].is_dir

\* the cycle that ends as a has descended into the selected row: one snapshot
\* pushed, the directory changed, nothing handed to the OS, no quit
descended(a) ==
    /\ a.history = Append(SubSeq(history, 1, Min(Len(history), history_pos + 1)), current)
    /\ a.dir = row_path(dir, filter, selected)
    /\ a.opened = opened
    /\ ~a.quit /\ a.panicked = "no"

\* the cycle that ends as a has handed the selected row to the OS and quit
\* where it was
forced_open(a) ==
    /\ a.opened = Append(opened, row_path(dir, filter, selected))
    /\ a.quit /\ a.panicked = "no"
    /\ a.dir = dir /\ a.history = history /\ a.history_pos = history_pos

\* C17 as stated: on the selected row of a directory, the cycle on Enter or a
\* single click descends whatever modifier is held, and the cycle on a double
\* click on a directory of the listing hands it to the OS
C17_DirectoryActivation ==
    (status = "running" /\ row_is_dir(dir, filter, selected)) =>
        \A in \in Activations(selected) :
           LET a == cycle(this, in) IN
           IF in.double THEN selected >= 1 => forced_open(a) ELSE descended(a)

\* C17: on the selected row of a directory of the listing, the cycle on Enter
\* or a single click without Alt descends; with Alt held, or on a double
\* click, it hands the directory to the OS and the session ends; on the ".."
\* row every activation descends
C17_DirectoryActivationAlt ==
    (status = "running" /\ row_is_dir(dir, filter, selected)) =>
        \A in \in Activations(selected) :
           LET a == cycle(this, in) IN
           IF selected >= 1 /\ (in.double \/ in.alt) THEN forced_open(a) ELSE descended(a)

\* Alt+Enter or a double click has opened the directory /B/A from /B
C17_Witness ==
    /\ status = "exit"
    /\ dir = DirB
    /\ opened = <<DirBA>>

\* the snapshots with Escape down: alone, or with one other event
WithEscape ==
    {[in EXCEPT !.esc = TRUE] :
        in \in Moves \cup {AltLeft, AltRight} \cup Activations(selected)
                \cup {[NoInput EXCEPT !.edit = e] : e \in Edits}}

\* C18: a cycle with Escape down, whatever else its snapshot holds, ends the
\* session, hands no file to the OS and pushes no snapshot
C18_EscapeNoEffect ==
    status = "running" =>
        \A in \in WithEscape :
           LET a == cycle(this, in) IN
           a.panicked = "no" => (a.quit /\ a.opened = opened /\ a.history = history)

====
